---- MODULE Spec2Model ----
(***************************************************************************)
(* Model of web/middleware.go (twister): the response filter chain         *)
(* (FilterRespond / filterResponder.Respond), proxyHeaderHandler.ServeWeb  *)
(* and formHandler.ServeWeb with its XSRF double-submit check.             *)
(*                                                                         *)
(* Strings are TLA+ strings.  ParamMap, HeaderMap and the cookie map are   *)
(* functions from the names present to the sequence of their values.       *)
(* A responder is either the original responder or a filterResponder       *)
(* record holding the responder it wraps and its filter.                   *)
(***************************************************************************)
EXTENDS Integers, Sequences, FiniteSets, TLC

VARIABLES
    pc,          \* position of the request in the handler chain
    checkXSRF,   \* formHandler.checkXSRF
    proxy,       \* proxyHeaderHandler fields addrName, schemeName
    req,         \* the *Request being served
    local,       \* locals of formHandler.ServeWeb: expectedToken, actualToken
    entry,       \* the request as it entered the handler
    parsed,      \* the request as ParseForm left it
    calls,       \* invocations of the downstream handler and of req.Error
    installs,    \* filters passed to FilterRespond, in installation order
    sent,        \* what Respond calls delivered to the original responder
    others       \* the other requests in flight: their pc, req, local, ...

vars == <<pc, checkXSRF, proxy, req, local, entry, parsed, calls, installs, sent,
          others>>

----------------------------------------------------------------------------
(* Program constants *)

XSRFCookieName == "xsrf"
XSRFParamName == "xsrf"
HeaderXXSRFToken == "X-Xsrftoken"
HeaderExpect == "Expect"
HeaderSetCookie == "Set-Cookie"
tokenLen == 8
StatusOK == 200
StatusBadRequest == 400
StatusNotFound == 404
StatusRequestEntityTooLarge == 413
StatusExpectationFailed == 417
ErrRequestEntityTooLarge == "twister: request entity too large"
ErrParse == "twister: Error reading or parsing form."
ErrBadToken == "twister: bad xsrf token"
ErrMissingToken == "twister: missing xsrf token"
ErrRandRead == "twister: rand read failed"

(* Bounds *)

MaxFilters == 2
MaxResponds == 1
NumRequests == 2

----------------------------------------------------------------------------
(* ParamMap / HeaderMap: name -> sequence of values *)

EmptyMap == [n \in {} |-> <<>>]

\* Get returns the first value of the name, "" when the name is absent.
Get(m, name) ==
    IF name \in DOMAIN m /\ Len(m[name]) > 0 THEN m[name][1] ELSE ""

\* Set replaces the values of the name by the single value.
Set(m, name, value) ==
    [n \in DOMAIN m \cup {name} |-> IF n = name THEN <<value>> ELSE m[n]]

\* Add appends the value to the values of the name.
Add(m, name, value) ==
    [n \in DOMAIN m \cup {name} |->
        IF n = name
        THEN (IF name \in DOMAIN m THEN m[name] ELSE <<>>) \o <<value>>
        ELSE m[n]]

One(name, value) == Set(EmptyMap, name, value)

\* NewCookie(name, value).String()
CookieString(name, value) == name \o "=" \o value

\* hex.EncodeToString
HexDigits == <<"0", "1", "2", "3", "4", "5", "6", "7",
               "8", "9", "a", "b", "c", "d", "e", "f">>

RECURSIVE EncodeToString(_)
EncodeToString(p) ==
    IF p = <<>> THEN ""
    ELSE HexDigits[(Head(p) \div 16) + 1] \o HexDigits[(Head(p) % 16) + 1]
         \o EncodeToString(Tail(p))

----------------------------------------------------------------------------
(* Response filter chain *)

OrigResponder == [kind |-> "orig"]

\* header.Set in the place of header.Add
XSRFFilterSet(c) == [kind |-> "setHeader", name |-> HeaderSetCookie, value |-> c]

\* the closure of formHandler.ServeWeb: header.Add(HeaderSetCookie, c)
XSRFFilter(c) == [kind |-> "addHeader", name |-> HeaderSetCookie, value |-> c]

\* rf.filter(status, header)
filter(f, status, header) ==
    CASE f.kind = "addHeader" ->
            [status |-> status, header |-> Add(header, f.name, f.value)]
      [] f.kind = "setHeader" ->
            [status |-> status, header |-> Set(header, f.name, f.value)]
      [] f.kind = "setStatus" ->
            [status |-> f.value, header |-> header]
      [] f.kind = "incStatus" ->
            [status |-> status + 1, header |-> header]
      [] f.kind = "doubleStatus" ->
            [status |-> 2 * status, header |-> header]

\* the filters applied in the order of installation: the wrapped responder's
\* filters first, rf.filter on their output
RECURSIVE ChainInstallOrder(_, _, _)
ChainInstallOrder(r, status, header) ==
    IF r.kind = "orig"
    THEN [status |-> status, header |-> header, ran |-> <<>>]
    ELSE LET in == ChainInstallOrder(r.Responder, status, header)
             out == filter(r.filter, in.status, in.header)
         IN  [status |-> out.status, header |-> out.header,
              ran |-> Append(in.ran, r.filter)]

RespondFromInstallOrder(r, status, header, ran) ==
    LET c == ChainInstallOrder(r, status, header)
    IN  [ran |-> ran \o c.ran,
         orig |-> <<[status |-> c.status, header |-> c.header]>>]

\* the filter's output dropped: the wrapped responder gets the caller's
\* arguments
RECURSIVE RespondFromUnfiltered(_, _, _, _)
RespondFromUnfiltered(r, status, header, ran) ==
    IF r.kind = "orig"
    THEN [ran |-> ran, orig |-> <<[status |-> status, header |-> header]>>]
    ELSE RespondFromUnfiltered(r.Responder, status, header,
                               Append(ran, r.filter))

\* filterResponder.Respond: the filter runs on the caller's arguments and the
\* wrapped responder's Respond gets its output.  The result lists the filters
\* in the order they ran (ran) and the (status, header) pairs the original
\* responder's Respond received (orig).
RECURSIVE RespondFrom(_, _, _, _)
RespondFrom(r, status, header, ran) ==
    IF r.kind = "orig"
    THEN [ran |-> ran, orig |-> <<[status |-> status, header |-> header]>>]
    ELSE LET out == filter(r.filter, status, header)
         IN  RespondFrom(r.Responder, out.status, out.header,
                         Append(ran, r.filter))

Respond(r, status, header) == RespondFrom(r, status, header, <<>>)

\* the filter run on the request's own header map when it is installed
FilterRespondEager(r, f) ==
    [r EXCEPT !.Responder =
                [kind |-> "filter", Responder |-> r.Responder, filter |-> f],
              !.Header = filter(f, StatusOK, r.Header).header]

\* FilterRespond: req.Responder = &filterResponder{req.Responder, filter}
FilterRespond(r, f) ==
    [r EXCEPT !.Responder =
        [kind |-> "filter", Responder |-> r.Responder, filter |-> f]]

----------------------------------------------------------------------------
(* Inputs *)

Methods == {"GET", "POST", "PUT", "DELETE"}
CookieValues == {"", "abc", "abcd1234"}
ParamValues == {"abc", "abcd1234", "wrongtok"}
HeaderTokens == {"abcd1234", "wrongtok"}
BodyValues == {"abcd1234"}
\* the reads of rand.Reader that succeed: tokenLen/2 bytes each
RandReads == {<<171, 205, 18, 52>>, <<0, 0, 0, 0>>}
ParseErrors == {ErrRequestEntityTooLarge, "twister: malformed form"}
\* filters other middleware and the application install
CookieFilters ==
    { [kind |-> "addHeader", name |-> HeaderSetCookie, value |-> "sid=1"],
      [kind |-> "setHeader", name |-> HeaderSetCookie, value |-> "sid=2"] }
Filters ==
    CookieFilters \cup
    { [kind |-> "setStatus", value |-> 500],
      [kind |-> "incStatus"],
      [kind |-> "doubleStatus"] }
RespondStatuses == {StatusOK, StatusNotFound}
RespondHeaders ==
    {EmptyMap,
     Set(One(HeaderSetCookie, "lang=en"), "Content-Type", "text/html")}

\* a map holding the name with one value, or nothing
Optional(name, values) == {EmptyMap} \cup {One(name, v) : v \in values}

\* f and g have disjoint domains
Merge(f, g) ==
    [n \in DOMAIN f \cup DOMAIN g |-> IF n \in DOMAIN f THEN f[n] ELSE g[n]]

NoLocal == [expectedToken |-> "", actualToken |-> "", err |-> ""]

----------------------------------------------------------------------------
(* formHandler.ServeWeb *)

Error(status, err) == [to |-> "error", status |-> status, err |-> err, req |-> req]
ServeWebCall(r) == [to |-> "h", status |-> 0, err |-> "", req |-> r]

\* the status of a body that is too large, whatever the Expect header
ParseStatusNoExpect(err, r) ==
    IF err = ErrRequestEntityTooLarge
    THEN StatusRequestEntityTooLarge
    ELSE StatusBadRequest

\* lines 148-154: the status of the parse error err
ParseStatus(err, r) ==
    IF err = ErrRequestEntityTooLarge
    THEN (IF Get(r.Header, HeaderExpect) # ""
          THEN StatusExpectationFailed
          ELSE StatusRequestEntityTooLarge)
    ELSE StatusBadRequest

\* lines 147-157: ParseForm returned err # nil
ParseFormFail(err) ==
    /\ pc = "form"
    /\ local' = [local EXCEPT !.err = err]
    /\ calls' = Append(calls, Error(ParseStatus(err, req), ErrParse))
    /\ pc' = "error"
    /\ parsed' = req
    /\ UNCHANGED <<others, checkXSRF, proxy, req, entry, installs, sent>>

\* req.ParseForm returned nil: the values of a form encoded POST or PUT body
\* are added to req.Param
ParseForm(r, body) ==
    IF r.Method \in {"POST", "PUT"} /\ XSRFParamName \in DOMAIN body
    THEN [r EXCEPT !.Param = Add(r.Param, XSRFParamName, body[XSRFParamName][1])]
    ELSE r

ParseFormOK(body) ==
    /\ pc = "form"
    /\ req' = ParseForm(req, body)
    /\ parsed' = req'
    /\ pc' = "xsrf"
    /\ UNCHANGED <<others, checkXSRF, proxy, local, entry, calls, installs, sent>>

\* the check run although checkXSRF is false
NoXSRFValidates ==
    /\ pc = "xsrf"
    /\ ~checkXSRF
    /\ pc' = "validate"
    /\ UNCHANGED <<others, checkXSRF, proxy, req, local, entry, parsed, calls, installs, sent>>

\* line 159: checkXSRF is false
NoXSRF ==
    /\ pc = "xsrf"
    /\ ~checkXSRF
    /\ pc' = "delegate"
    /\ UNCHANGED <<others, checkXSRF, proxy, req, local, entry, parsed, calls, installs, sent>>

\* the cookie kept whatever its length
KeepTokenAnyLength ==
    /\ pc = "xsrf"
    /\ checkXSRF
    /\ local' = [local EXCEPT !.expectedToken = Get(req.Cookie, XSRFCookieName)]
    /\ pc' = "validate"
    /\ UNCHANGED <<others, checkXSRF, proxy, req, entry, parsed, calls, installs, sent>>

\* the cookie kept and set again on the response
KeepTokenRefresh ==
    /\ pc = "xsrf"
    /\ checkXSRF
    /\ Len(Get(req.Cookie, XSRFCookieName)) = tokenLen
    /\ LET expectedToken == Get(req.Cookie, XSRFCookieName)
           c == CookieString(XSRFCookieName, expectedToken)
       IN  /\ local' = [local EXCEPT !.expectedToken = expectedToken]
           /\ req' = FilterRespond(req, XSRFFilter(c))
           /\ installs' = Append(installs, XSRFFilter(c))
    /\ pc' = "validate"
    /\ UNCHANGED <<others, checkXSRF, proxy, entry, parsed, calls, sent>>

\* lines 161-164: the cookie has the length of a token
KeepToken ==
    /\ pc = "xsrf"
    /\ checkXSRF
    /\ Len(Get(req.Cookie, XSRFCookieName)) = tokenLen
    /\ local' = [local EXCEPT !.expectedToken = Get(req.Cookie, XSRFCookieName)]
    /\ pc' = "validate"
    /\ UNCHANGED <<others, checkXSRF, proxy, req, entry, parsed, calls, installs, sent>>

\* lines 164-176: a new token from the bytes p read from rand.Reader
MintToken(p) ==
    /\ pc = "xsrf"
    /\ checkXSRF
    /\ Len(Get(req.Cookie, XSRFCookieName)) # tokenLen
    /\ LET expectedToken == EncodeToString(p)
           c == CookieString(XSRFCookieName, expectedToken)
       IN  /\ local' = [local EXCEPT !.expectedToken = expectedToken]
           /\ req' = FilterRespond(req, XSRFFilter(c))
           /\ installs' = Append(installs, XSRFFilter(c))
    /\ pc' = "validate"
    /\ UNCHANGED <<others, checkXSRF, proxy, entry, parsed, calls, sent>>

\* a fixed token used when rand.Reader.Read failed
RandFailFallback ==
    /\ pc = "xsrf"
    /\ checkXSRF
    /\ Len(Get(req.Cookie, XSRFCookieName)) # tokenLen
    /\ LET expectedToken == EncodeToString(<<0, 0, 0, 0>>)
           c == CookieString(XSRFCookieName, expectedToken)
       IN  /\ local' = [local EXCEPT !.err = ErrRandRead,
                                     !.expectedToken = expectedToken]
           /\ req' = FilterRespond(req, XSRFFilter(c))
           /\ installs' = Append(installs, XSRFFilter(c))
    /\ pc' = "validate"
    /\ UNCHANGED <<others, checkXSRF, proxy, entry, parsed, calls, sent>>

\* lines 166-169: rand.Reader.Read failed
RandFail ==
    /\ pc = "xsrf"
    /\ checkXSRF
    /\ Len(Get(req.Cookie, XSRFCookieName)) # tokenLen
    /\ local' = [local EXCEPT !.err = ErrRandRead]
    /\ pc' = "panic"
    /\ UNCHANGED <<others, checkXSRF, proxy, req, entry, parsed, calls, installs, sent>>

\* the actual token taken from the header alone
ActualTokenHeaderOnly(r) == Get(r.Header, HeaderXXSRFToken)

\* the header consulted first, the parameter when the header is empty
ActualTokenPreferHeader(r) ==
    IF Get(r.Header, HeaderXXSRFToken) = ""
    THEN Get(r.Param, XSRFParamName)
    ELSE Get(r.Header, HeaderXXSRFToken)

\* lines 178-182
ActualToken(r) ==
    IF Get(r.Param, XSRFParamName) = ""
    THEN Get(r.Header, HeaderXXSRFToken)
    ELSE Get(r.Param, XSRFParamName)

\* DELETE left out of the methods that are checked
IsMutatingNoDelete(method) == method \in {"POST", "PUT"}

\* lines 185-187
IsMutating(method) == method \in {"POST", "PUT", "DELETE"}

\* the parameter set only when it was empty: line 184 left out
SetParamWhenEmpty(r, expectedToken) ==
    IF Get(r.Param, XSRFParamName) = ""
    THEN [r EXCEPT !.Param = Set(r.Param, XSRFParamName, expectedToken)]
    ELSE r

\* lines 178-184: the request with its parameter set to the expected token
\* when the parameter was empty (line 181) or the tokens differ (line 184)
SetParam(r, expectedToken) ==
    LET r1 == IF Get(r.Param, XSRFParamName) = ""
              THEN [r EXCEPT !.Param = Set(r.Param, XSRFParamName, expectedToken)]
              ELSE r
    IN  IF expectedToken # ActualToken(r)
        THEN [r1 EXCEPT !.Param = Set(r1.Param, XSRFParamName, expectedToken)]
        ELSE r1

\* the return of line 193 left out: the request goes on to line 198
ValidateNoReturn ==
    /\ pc = "validate"
    /\ LET expectedToken == local.expectedToken
           actualToken == ActualToken(req)
       IN  /\ local' = [local EXCEPT !.actualToken = actualToken]
           /\ req' = SetParam(req, expectedToken)
           /\ IF expectedToken # actualToken /\ IsMutating(req.Method)
              THEN calls' = Append(calls,
                        [to |-> "error", status |-> StatusNotFound,
                         err |-> IF actualToken = "" THEN ErrMissingToken
                                 ELSE ErrBadToken,
                         req |-> req'])
              ELSE calls' = calls
           /\ pc' = "delegate"
    /\ UNCHANGED <<others, checkXSRF, proxy, entry, parsed, installs, sent>>

\* lines 178-195
Validate ==
    /\ pc = "validate"
    /\ LET expectedToken == local.expectedToken
           actualToken == ActualToken(req)
       IN  /\ local' = [local EXCEPT !.actualToken = actualToken]
           /\ req' = SetParam(req, expectedToken)
           /\ IF expectedToken # actualToken /\ IsMutating(req.Method)
              THEN /\ calls' = Append(calls,
                        [to |-> "error", status |-> StatusNotFound,
                         err |-> IF actualToken = "" THEN ErrMissingToken
                                 ELSE ErrBadToken,
                         req |-> req'])
                   /\ pc' = "error"
              ELSE /\ calls' = calls
                   /\ pc' = "delegate"
    /\ UNCHANGED <<others, checkXSRF, proxy, entry, parsed, installs, sent>>

\* line 198: h.h.ServeWeb(req)
Delegate ==
    /\ pc = "delegate"
    /\ calls' = Append(calls, ServeWebCall(req))
    /\ pc' = "downstream"
    /\ UNCHANGED <<others, checkXSRF, proxy, req, local, entry, parsed, installs, sent>>

----------------------------------------------------------------------------
(* The handlers that get the request: they may install filters and respond *)

AppFilterRespond(f) ==
    /\ pc \in {"downstream", "error"}
    /\ Len(installs) < MaxFilters
    /\ req' = FilterRespond(req, f)
    /\ installs' = Append(installs, f)
    /\ UNCHANGED <<others, pc, checkXSRF, proxy, local, entry, parsed, calls, sent>>

\* req.Responder.Respond(status, header); installed records the filters
\* installed on the request when the call is made
AppRespond(status, header) ==
    /\ pc \in {"downstream", "error"}
    /\ Len(sent) < MaxResponds
    /\ sent' = Append(sent, [status |-> status, header |-> header,
                             installed |-> installs,
                             got |-> Respond(req.Responder, status, header)])
    /\ UNCHANGED <<others, pc, checkXSRF, proxy, req, local, entry, parsed, calls, installs>>

----------------------------------------------------------------------------
(* proxyHeaderHandler.ServeWeb, lines 99-107 *)

\* the scheme taken from the header named addrName
ProxyFixUpSchemeFromAddr(h, r) ==
    LET r1 == IF Get(r.Header, h.addrName) # ""
              THEN [r EXCEPT !.RemoteAddr = Get(r.Header, h.addrName)]
              ELSE r
    IN  IF Get(r1.Header, h.addrName) # ""
        THEN [r1 EXCEPT !.Scheme = Get(r1.Header, h.addrName)]
        ELSE r1

\* the fields assigned whatever Header.Get returns
ProxyFixUpAlways(h, r) ==
    [r EXCEPT !.RemoteAddr = Get(r.Header, h.addrName),
              !.Scheme = Get(r.Header, h.schemeName)]

ProxyFixUp(h, r) ==
    LET r1 == IF Get(r.Header, h.addrName) # ""
              THEN [r EXCEPT !.RemoteAddr = Get(r.Header, h.addrName)]
              ELSE r
    IN  IF Get(r1.Header, h.schemeName) # ""
        THEN [r1 EXCEPT !.Scheme = Get(r1.Header, h.schemeName)]
        ELSE r1

ProxyServeWeb ==
    /\ pc = "proxy"
    /\ req' = ProxyFixUp(proxy, req)
    /\ calls' = Append(calls, ServeWebCall(req'))
    /\ pc' = "downstream"
    /\ UNCHANGED <<others, checkXSRF, proxy, local, entry, parsed, installs, sent>>

----------------------------------------------------------------------------
(* Specifications *)

NewRequest(method, header, cookie, param, addr, scheme) ==
    [Method |-> method, Header |-> header, Cookie |-> cookie, Param |-> param,
     RemoteAddr |-> addr, Scheme |-> scheme, Responder |-> OrigResponder]

NoProxy == [addrName |-> "", schemeName |-> ""]

\* a request enters FormHandler(maxRequestBodyLen, checkXSRF, h)
Init ==
    /\ pc = "form"
    /\ checkXSRF \in BOOLEAN
    /\ proxy = NoProxy
    /\ \E method \in Methods,
          cookie \in Optional(XSRFCookieName, CookieValues),
          param \in Optional(XSRFParamName, ParamValues),
          token \in Optional(HeaderXXSRFToken, HeaderTokens),
          expect \in Optional(HeaderExpect, {"100-continue"}) :
            req = NewRequest(method, Merge(token, expect), cookie, param,
                             "127.0.0.1:5000", "http")
    /\ local = NoLocal
    /\ entry = req
    /\ parsed = req
    /\ calls = <<>>
    /\ installs = <<>>
    /\ sent = <<>>
    /\ others = <<>>

Next ==
    \/ \E err \in ParseErrors : ParseFormFail(err)
    \/ \E body \in Optional(XSRFParamName, BodyValues) : ParseFormOK(body)
    \/ NoXSRF
    \/ KeepToken
    \/ \E p \in RandReads : MintToken(p)
    \/ RandFail
    \/ Validate
    \/ Delegate
    \/ \E f \in CookieFilters : AppFilterRespond(f)
    \/ \E status \in RespondStatuses, header \in RespondHeaders :
            AppRespond(status, header)

Spec == Init /\ [][Next]_vars

\* formHandler.ServeWeb is synchronous code: once entered it runs until it
\* returns or panics
ServeWebStep ==
    \/ \E err \in ParseErrors : ParseFormFail(err)
    \/ \E body \in Optional(XSRFParamName, BodyValues) : ParseFormOK(body)
    \/ NoXSRF
    \/ KeepToken
    \/ \E p \in RandReads : MintToken(p)
    \/ RandFail
    \/ Validate
    \/ Delegate

\* the handler alone, up to the call of the downstream handler or of req.Error
FairSpec == Init /\ [][ServeWebStep]_vars /\ WF_vars(ServeWebStep)

\* middleware installs filters on a request and the handler responds
InitFilter ==
    /\ pc = "downstream"
    /\ checkXSRF = FALSE
    /\ proxy = NoProxy
    /\ req = NewRequest("GET", EmptyMap, EmptyMap, EmptyMap, "127.0.0.1:5000", "http")
    /\ local = NoLocal
    /\ entry = req
    /\ parsed = req
    /\ calls = <<>>
    /\ installs = <<>>
    /\ sent = <<>>
    /\ others = <<>>

NextFilter ==
    \/ \E f \in Filters : AppFilterRespond(f)
    \/ \E status \in RespondStatuses, header \in RespondHeaders :
            AppRespond(status, header)

SpecFilter == InitFilter /\ [][NextFilter]_vars

\* a request enters ProxyHeaderHandler(addrName, schemeName, h)
ProxyHeaderNames == {"X-Real-Ip", "X-Scheme"}
ProxyHeaderValues == {"", "10.0.0.1", "https"}

InitProxy ==
    /\ pc = "proxy"
    /\ checkXSRF = FALSE
    /\ \E addrName \in ProxyHeaderNames \cup {""},
          schemeName \in ProxyHeaderNames \cup {""} :
            proxy = [addrName |-> addrName, schemeName |-> schemeName]
    /\ \E ip \in Optional("X-Real-Ip", ProxyHeaderValues),
          scheme \in Optional("X-Scheme", ProxyHeaderValues),
          method \in {"GET", "POST"} :
            req = NewRequest(method, Merge(ip, scheme), EmptyMap, EmptyMap,
                             "127.0.0.1:5000", "http")
    /\ local = NoLocal
    /\ entry = req
    /\ parsed = req
    /\ calls = <<>>
    /\ installs = <<>>
    /\ sent = <<>>
    /\ others = <<>>

NextProxy == ProxyServeWeb

SpecProxy == InitProxy /\ [][NextProxy]_vars

----------------------------------------------------------------------------
(* Requests served concurrently by one formHandler.  ServeWeb has a value
   receiver and keeps what it computes in locals and in its own *Request:
   every call has its own pc, req, local, entry, parsed, calls, installs and
   sent.  The variables hold the call that is running, others holds the
   calls that are not, and Switch passes control to one of those. *)

Ctx ==
    [pc |-> pc, req |-> req, local |-> local, entry |-> entry,
     parsed |-> parsed, calls |-> calls, installs |-> installs, sent |-> sent]

NewCtx(r) ==
    [pc |-> "form", req |-> r, local |-> NoLocal, entry |-> r, parsed |-> r,
     calls |-> <<>>, installs |-> <<>>, sent |-> <<>>]

\* the locals kept in one place for all the calls
SwitchSharingLocal(i) ==
    /\ i \in 1..Len(others)
    /\ pc' = others[i].pc
    /\ req' = others[i].req
    /\ local' = local
    /\ entry' = others[i].entry
    /\ parsed' = others[i].parsed
    /\ calls' = others[i].calls
    /\ installs' = others[i].installs
    /\ sent' = others[i].sent
    /\ others' = [others EXCEPT ![i] = Ctx]
    /\ UNCHANGED <<checkXSRF, proxy>>

\* the call that is running is suspended and call i of the others runs
Switch(i) ==
    /\ i \in 1..Len(others)
    /\ pc' = others[i].pc
    /\ req' = others[i].req
    /\ local' = others[i].local
    /\ entry' = others[i].entry
    /\ parsed' = others[i].parsed
    /\ calls' = others[i].calls
    /\ installs' = others[i].installs
    /\ sent' = others[i].sent
    /\ others' = [others EXCEPT ![i] = Ctx]
    /\ UNCHANGED <<checkXSRF, proxy>>

ConcRequests ==
    { NewRequest("GET", EmptyMap, EmptyMap, EmptyMap, "127.0.0.1:5000", "http"),
      NewRequest("POST", EmptyMap, One(XSRFCookieName, "abcd1234"),
                 One(XSRFParamName, "wrongtok"), "127.0.0.1:5000", "http"),
      NewRequest("POST", EmptyMap, EmptyMap,
                 One(XSRFParamName, "abcd1234"), "127.0.0.1:5000", "http"),
      NewRequest("GET", One(HeaderXXSRFToken, "abcd1234"),
                 One(XSRFCookieName, "abcd1234"), EmptyMap,
                 "127.0.0.1:5000", "http") }

\* NumRequests requests enter the same FormHandler
InitConc ==
    /\ pc = "form"
    /\ checkXSRF \in BOOLEAN
    /\ proxy = NoProxy
    /\ req \in ConcRequests
    /\ local = NoLocal
    /\ entry = req
    /\ parsed = req
    /\ calls = <<>>
    /\ installs = <<>>
    /\ sent = <<>>
    /\ others \in [1..(NumRequests - 1) -> {NewCtx(r) : r \in ConcRequests}]

NextConc ==
    \/ ParseFormFail(ErrRequestEntityTooLarge)
    \/ ParseFormOK(EmptyMap)
    \/ NoXSRF
    \/ KeepToken
    \/ \E p \in RandReads : MintToken(p)
    \/ RandFail
    \/ Validate
    \/ Delegate
    \/ \E i \in 1..(NumRequests - 1) : Switch(i)

SpecConc == InitConc /\ [][NextConc]_vars

----------------------------------------------------------------------------
(* Vocabulary of the properties *)

\* ParseForm failed: the only call is req.Error with the parse error
ParseFailed == pc = "error" /\ calls[1].err = ErrParse

\* the validation step (lines 178-195) has run
Validated ==
    checkXSRF /\ pc \in {"delegate", "downstream", "error"} /\ ~ParseFailed

\* formHandler.ServeWeb has returned or panicked
Returned == pc \in {"downstream", "error", "panic"}

\* the token the client submitted: the parameter, else the header
Submitted(r) ==
    LET param == Get(r.Param, XSRFParamName)
    IN  IF param # "" THEN param ELSE Get(r.Header, HeaderXXSRFToken)

Mutating == {"POST", "PUT", "DELETE"}

CookieOf(r) == Get(r.Cookie, XSRFCookieName)

CallsTo(to) == {i \in 1..Len(calls) : calls[i].to = to}

\* the filter that adds the Set-Cookie of the token
CookieFilterOf(token) ==
    [kind |-> "addHeader", name |-> HeaderSetCookie,
     value |-> "xsrf=" \o token]

\* the responder r is the responder inner wrapped with the filter of token
WrapsWith(r, inner, token) ==
    /\ r.kind = "filter"
    /\ r.filter = CookieFilterOf(token)
    /\ r.Responder = inner

\* the header map carries the value under the name
Carries(header, name, value) ==
    /\ name \in DOMAIN header
    /\ \E i \in 1..Len(header[name]) : header[name][i] = value

----------------------------------------------------------------------------
\* C1: with checkXSRF, a POST, PUT or DELETE request whose actual token
\* differs from the expected token never reaches the downstream handler, and
\* req.Error is called once with StatusNotFound and "missing xsrf token" when
\* the actual token is empty, "bad xsrf token" otherwise.
C1_MutatingMismatchRejected ==
    (Validated /\ parsed.Method \in Mutating
        /\ Submitted(parsed) # local.expectedToken)
    => /\ pc = "error"
       /\ CallsTo("h") = {}
       /\ Len(calls) = 1
       /\ calls[1].to = "error"
       /\ calls[1].status = StatusNotFound
       /\ calls[1].err = IF Submitted(parsed) = "" THEN ErrMissingToken
                         ELSE ErrBadToken

C1_Witness ==
    /\ Validated
    /\ parsed.Method = "DELETE"
    /\ Submitted(parsed) = "wrongtok"
    /\ local.expectedToken = "abcd1234"
    /\ pc = "error"
    /\ calls[1].err = ErrBadToken
    /\ sent # <<>>

\* C2 as stated: with checkXSRF, whenever the cookie value equals the
\* submitted token, whatever the method and the length of the value, the
\* downstream handler is invoked and no filter is installed (stated for the
\* requests whose form parsed and whose handler returned).
C2_Original ==
    (checkXSRF /\ pc \in {"downstream", "error"} /\ ~ParseFailed
        /\ CookieOf(parsed) = Submitted(parsed))
    => /\ pc = "downstream"
       /\ calls[1].to = "h"
       /\ calls[1].req.Responder = entry.Responder

\* C2 amended: with checkXSRF, when form parsing succeeds and the cookie value
\* has length tokenLen and equals the submitted token, whatever the method, the
\* downstream handler is the only handler invoked, the responder is the one
\* the request came with (no filter installed, no token minted) and the
\* handler does not panic.
C2_MatchingCookieDelegated ==
    (checkXSRF /\ pc \notin {"form", "xsrf"} /\ ~ParseFailed
        /\ Len(CookieOf(parsed)) = tokenLen
        /\ CookieOf(parsed) = Submitted(parsed))
    => /\ pc \in {"validate", "delegate", "downstream"}
       /\ local.expectedToken = CookieOf(parsed)
       /\ CallsTo("error") = {}
       /\ pc \in {"validate", "delegate"} =>
            (calls = <<>> /\ req.Responder = entry.Responder)
       /\ pc = "downstream" =>
            /\ Len(calls) = 1
            /\ calls[1].to = "h"
            /\ calls[1].req.Responder = entry.Responder

C2_Witness ==
    /\ checkXSRF
    /\ parsed.Method = "POST"
    /\ CookieOf(parsed) = "abcd1234"
    /\ Get(parsed.Param, XSRFParamName) = "abcd1234"
    /\ pc = "downstream"
    /\ calls[1].to = "h"
    /\ installs = <<>>

\* C3 as stated: with checkXSRF, for every request whose cookie is absent or
\* not tokenLen long, once the handler is through a token of length tokenLen
\* has been minted, every response emitted through the request's responder
\* carries the Set-Cookie of that token, be it the downstream handler's or
\* an error response, and the downstream handler sees that token as the
\* "xsrf" parameter.
C3_Original ==
    (checkXSRF /\ Len(CookieOf(entry)) # tokenLen /\ Returned)
    => /\ Len(local.expectedToken) = tokenLen
       /\ installs # <<>>
       /\ installs[1] = CookieFilterOf(local.expectedToken)
       /\ \A i \in 1..Len(sent) :
            /\ Len(sent[i].got.orig) = 1
            /\ Carries(sent[i].got.orig[1].header, HeaderSetCookie,
                       "xsrf=" \o local.expectedToken)
       /\ \A i \in CallsTo("h") :
            Get(calls[i].req.Param, XSRFParamName) = local.expectedToken

\* C4: with checkXSRF, a request whose method is not POST, PUT or DELETE and
\* whose actual token differs from the expected token is never rejected: the
\* downstream handler is invoked, once, and the "xsrf" parameter is the
\* expected token from the end of the validation step on, so before and at
\* the invocation.
C4_Safety ==
    (Validated /\ parsed.Method \notin Mutating
        /\ Submitted(parsed) # local.expectedToken)
    => /\ pc \in {"delegate", "downstream"}
       /\ CallsTo("error") = {}
       /\ Get(req.Param, XSRFParamName) = local.expectedToken
       /\ pc = "delegate" => calls = <<>>
       /\ pc = "downstream" =>
            /\ Len(calls) = 1
            /\ calls[1].to = "h"
            /\ Get(calls[1].req.Param, XSRFParamName) = local.expectedToken

C4_SafeMismatchDelegated ==
    /\ []C4_Safety
    /\ (checkXSRF /\ pc = "validate" /\ req.Method \notin Mutating
            /\ Submitted(req) # local.expectedToken)
       ~> (pc = "downstream" /\ Len(calls) = 1 /\ calls[1].to = "h"
            /\ Get(calls[1].req.Param, XSRFParamName) = local.expectedToken)

C4_Witness ==
    /\ Validated
    /\ parsed.Method = "GET"
    /\ Submitted(parsed) = "wrongtok"
    /\ local.expectedToken = "abcd1234"
    /\ pc = "downstream"
    /\ calls[1].to = "h"
    /\ Get(calls[1].req.Param, XSRFParamName) = "abcd1234"

\* C5 as stated: with checkXSRF false the handler leaves the request's
\* cookies, "xsrf" parameter and responder as they came in and always invokes
\* the downstream handler.
C5_Original ==
    (~checkXSRF /\ pc \in {"downstream", "error"})
    => /\ calls[1].to = "h"
       /\ calls[1].req.Cookie = entry.Cookie
       /\ Get(calls[1].req.Param, XSRFParamName) = Get(entry.Param, XSRFParamName)
       /\ calls[1].req.Responder = entry.Responder

\* C5 amended: with checkXSRF false the handler does nothing to the request
\* beyond form parsing: cookies, parameters and responder reach the next
\* handler as ParseForm left them, no token is read or minted, and the
\* downstream handler is invoked exactly when form parsing succeeds; when
\* it fails the error path is invoked with the parse error instead.
C5_DisabledOnlyParses ==
    ~checkXSRF
    => /\ pc \in {"form", "xsrf", "delegate", "downstream", "error"}
       /\ local.expectedToken = ""
       /\ local.actualToken = ""
       /\ parsed.Cookie = entry.Cookie
       /\ parsed.Responder = entry.Responder
       /\ pc \in {"xsrf", "delegate"} => (req = parsed /\ calls = <<>>)
       /\ pc \in {"downstream", "error"} =>
            /\ Len(calls) = 1
            /\ calls[1].req = parsed
       /\ pc = "downstream" => calls[1].to = "h"
       /\ pc = "error" =>
            /\ calls[1].to = "error"
            /\ calls[1].err = ErrParse
            /\ calls[1].req = entry

C5_Witness ==
    /\ ~checkXSRF
    /\ parsed.Method = "POST"
    /\ CookieOf(parsed) = ""
    /\ Get(parsed.Param, XSRFParamName) = "wrongtok"
    /\ pc = "downstream"
    /\ calls[1].to = "h"
    /\ calls[1].req = parsed

\* C6 as documented (lines 124-126): with checkXSRF, every request passed to
\* the downstream handler or to the error handler has its "xsrf" parameter
\* set to the expected token and its "xsrf" cookie set: it carries a cookie
\* of length tokenLen, or its responder has the filter that adds the
\* Set-Cookie of the parameter's token; also on the form-parse error path.
C6_Documented ==
    checkXSRF
    => \A i \in 1..Len(calls) :
        LET r == calls[i].req
            param == Get(r.Param, XSRFParamName)
        IN  /\ Len(param) = tokenLen
            /\ \/ CookieOf(r) = param
               \/ /\ Len(CookieOf(r)) # tokenLen
                  /\ WrapsWith(r.Responder, entry.Responder, param)

----------------------------------------------------------------------------
(* Filter chain *)

Reverse(fs) == [i \in 1..Len(fs) |-> fs[Len(fs) + 1 - i]]

\* the filters of fs applied one after the other, fs[1] first
RECURSIVE ApplyInOrder(_, _, _)
ApplyInOrder(fs, status, header) ==
    IF fs = <<>> THEN [status |-> status, header |-> header]
    ELSE LET out == filter(Head(fs), status, header)
         IN  ApplyInOrder(Tail(fs), out.status, out.header)

\* C7 as stated: with F1 then F2 installed, Respond(200, H) delivers
\* F2(F1(200, H)) to the original responder.
C7_Original ==
    \A i \in 1..Len(sent) :
        (Len(sent[i].installed) = 2 /\ sent[i].status = StatusOK)
        => LET F1 == sent[i].installed[1]
               F2 == sent[i].installed[2]
               a == filter(F1, sent[i].status, sent[i].header)
           IN  sent[i].got.orig = <<filter(F2, a.status, a.header)>>

\* C7 amended: with F1 then F2 installed, Respond(200, H) delivers
\* F1(F2(200, H)) to the original responder: F2, installed last, runs first
\* and F1 runs on its output.
C7_LastInstalledRunsFirst ==
    \A i \in 1..Len(sent) :
        (Len(sent[i].installed) = 2 /\ sent[i].status = StatusOK)
        => LET F1 == sent[i].installed[1]
               F2 == sent[i].installed[2]
               a == filter(F2, sent[i].status, sent[i].header)
           IN  sent[i].got.orig = <<filter(F1, a.status, a.header)>>

C7_Witness ==
    \E i \in 1..Len(sent) :
        /\ sent[i].installed = <<[kind |-> "incStatus"], [kind |-> "doubleStatus"]>>
        /\ sent[i].status = StatusOK
        /\ sent[i].got.orig[1].status = 401

\* C8: every call of Respond on the request's responder runs each installed
\* filter exactly once, the last installed first, each on the output of the
\* one before, and the original responder's Respond is called exactly once,
\* with the output of the first installed filter.
C8_AllFiltersReverseOrder ==
    \A i \in 1..Len(sent) :
        /\ sent[i].got.ran = Reverse(sent[i].installed)
        /\ sent[i].got.orig =
            <<ApplyInOrder(Reverse(sent[i].installed),
                           sent[i].status, sent[i].header)>>

C8_Witness ==
    \E i \in 1..Len(sent) :
        /\ Len(sent[i].installed) = MaxFilters
        /\ sent[i].installed[1] = [kind |-> "setStatus", value |-> 500]
        /\ sent[i].installed[MaxFilters] = [kind |-> "doubleStatus"]
        /\ sent[i].got.ran[1] = [kind |-> "doubleStatus"]
        /\ sent[i].got.orig[1].status = 500

----------------------------------------------------------------------------
(* ProxyHeaderHandler *)

Present(header, name) == name # "" /\ name \in DOMAIN header

C10_DocumentedExample ==
    (/\ pc = "downstream"
     /\ proxy = [addrName |-> "X-Scheme", schemeName |-> "X-Real-Ip"]
     /\ Get(entry.Header, "X-Real-Ip") = "10.0.0.1"
     /\ Get(entry.Header, "X-Scheme") = "https")
    => /\ calls[1].req.RemoteAddr = "10.0.0.1"
       /\ calls[1].req.Scheme = "https"

----------------------------------------------------------------------------
(* Errors *)

C12_RandFailureAborts ==
    local.err = ErrRandRead
    => /\ pc = "panic"
       /\ local.expectedToken = ""
       /\ req = parsed
       /\ installs = <<>>
       /\ calls = <<>>
       /\ sent = <<>>

C12_Witness ==
    /\ pc = "panic"
    /\ local.err = ErrRandRead
    /\ checkXSRF
    /\ parsed.Method = "POST"
    /\ CookieOf(parsed) = "abc"
    /\ calls = <<>>

\* C13: the actual token of the validation step is the "xsrf" parameter when
\* the parameter is not empty and the X-XSRFToken header only when it is
\* empty: a POST whose parameter is not empty and differs from the expected
\* token is rejected with "bad xsrf token" whatever its header, and a POST
\* whose parameter is empty and whose header is the expected token is
\* delegated with the parameter set to the expected token.
C13_ParamBeforeHeader ==
    Validated
    => LET param == Get(parsed.Param, XSRFParamName)
           header == Get(parsed.Header, HeaderXXSRFToken)
       IN  /\ local.actualToken = IF param # "" THEN param ELSE header
           /\ (parsed.Method = "POST" /\ param # ""
                    /\ param # local.expectedToken)
              => /\ pc = "error"
                 /\ calls[1].to = "error"
                 /\ calls[1].err = ErrBadToken
                 /\ CallsTo("h") = {}
           /\ (parsed.Method = "POST" /\ param = ""
                    /\ header = local.expectedToken)
              => /\ pc \in {"delegate", "downstream"}
                 /\ CallsTo("error") = {}
                 /\ Get(req.Param, XSRFParamName) = local.expectedToken
                 /\ pc = "downstream" =>
                        /\ calls[1].to = "h"
                        /\ Get(calls[1].req.Param, XSRFParamName) =
                                local.expectedToken

C13_Witness ==
    /\ Validated
    /\ parsed.Method = "POST"
    /\ Get(parsed.Param, XSRFParamName) = "wrongtok"
    /\ Get(parsed.Header, HeaderXXSRFToken) = "abcd1234"
    /\ local.expectedToken = "abcd1234"
    /\ pc = "error"
    /\ calls[1].err = ErrBadToken

----------------------------------------------------------------------------
(* Frames *)

\* C14: FilterRespond changes the request's responder and nothing else: the
\* new responder wraps the one before with the filter, the request's other
\* fields and header maps stay as they are, no Respond is called and nothing
\* reaches the original responder; filters run in Respond calls only.
C14_FilterRespondFrame ==
    [][installs' # installs
        => /\ Len(installs') = Len(installs) + 1
           /\ req' = [req EXCEPT !.Responder =
                        [kind |-> "filter", Responder |-> req.Responder,
                         filter |-> installs'[Len(installs')]]]
           /\ UNCHANGED <<pc, checkXSRF, proxy, local, entry, parsed, calls,
                          sent, others>>]_vars

C14_Witness ==
    /\ Len(installs) = 2
    /\ installs[1].kind = "addHeader"
    /\ sent = <<>>
    /\ req.Responder.kind = "filter"
    /\ req.Responder.Responder.kind = "filter"
    /\ req.Header = entry.Header
    /\ calls = <<>>

\* C15: the filter installed with a minted token hands the status on as it
\* gets it and appends the one value "xsrf=<token>" to the Set-Cookie values:
\* the header names and values it gets, Set-Cookie values of other cookies
\* included, are all in what it hands on, in their order.
C15_CookieFilterAppends ==
    \A i \in 1..Len(sent) :
        (checkXSRF /\ Validated /\ Len(CookieOf(parsed)) # tokenLen)
        => LET in == ApplyInOrder(Reverse(Tail(sent[i].installed)),
                                  sent[i].status, sent[i].header)
               out == sent[i].got.orig[1]
               before == IF HeaderSetCookie \in DOMAIN in.header
                         THEN in.header[HeaderSetCookie] ELSE <<>>
           IN  /\ Len(sent[i].got.orig) = 1
               /\ out.status = in.status
               /\ DOMAIN out.header = DOMAIN in.header \cup {HeaderSetCookie}
               /\ \A n \in DOMAIN in.header \ {HeaderSetCookie} :
                        out.header[n] = in.header[n]
               /\ out.header[HeaderSetCookie] =
                        before \o <<"xsrf=" \o local.expectedToken>>

C15_Witness ==
    /\ checkXSRF
    /\ Validated
    /\ CookieOf(parsed) = ""
    /\ local.expectedToken = "abcd1234"
    /\ Len(sent) = 1
    /\ sent[1].status = StatusNotFound
    /\ sent[1].got.orig[1].status = StatusNotFound
    /\ sent[1].got.orig[1].header =
            [n \in {HeaderSetCookie, "Content-Type"} |->
                IF n = HeaderSetCookie THEN <<"lang=en", "xsrf=abcd1234">>
                ELSE <<"text/html">>]

\* C16: ProxyHeaderHandler leaves RemoteAddr as it is when addrName is "" or
\* the request has no header addrName, leaves URL.Scheme as it is when
\* schemeName is "" or the request has no header schemeName, changes no
\* other field of the request and invokes the downstream handler exactly
\* once, whatever it substituted.
C16_ProxyFrame ==
    pc = "downstream"
    => /\ Len(calls) = 1
       /\ calls[1].to = "h"
       /\ calls[1].req = req
       /\ ~Present(entry.Header, proxy.addrName) =>
            req.RemoteAddr = entry.RemoteAddr
       /\ ~Present(entry.Header, proxy.schemeName) =>
            req.Scheme = entry.Scheme
       /\ [req EXCEPT !.RemoteAddr = entry.RemoteAddr,
                      !.Scheme = entry.Scheme] = entry

C16_Witness ==
    /\ pc = "downstream"
    /\ proxy = [addrName |-> "", schemeName |-> "X-Scheme"]
    /\ "X-Scheme" \notin DOMAIN entry.Header
    /\ Get(entry.Header, "X-Real-Ip") = "10.0.0.1"
    /\ Len(calls) = 1
    /\ calls[1].req = entry

----------------------------------------------------------------------------
(* Concurrent requests *)

MintedTokens == {"abcd1234", "00000000"}

\* the outcome of the call c as its own request, the error ParseForm or
\* rand.Reader gave it and its own minted token determine it
AloneOutcome(c) ==
    LET cookie == CookieOf(c.parsed)
        actual == Submitted(c.parsed)
        token == IF Len(cookie) = tokenLen THEN cookie
                 ELSE IF \E t \in MintedTokens : c.installs = <<CookieFilterOf(t)>>
                      THEN CHOOSE t \in MintedTokens :
                                c.installs = <<CookieFilterOf(t)>>
                      ELSE ""
    IN  IF c.local.err \notin {"", ErrRandRead}
        THEN /\ c.pc = "error"
             /\ c.installs = <<>>
             /\ c.req = c.entry
             /\ Len(c.calls) = 1
             /\ c.calls[1].to = "error"
             /\ c.calls[1].err = ErrParse
             /\ c.calls[1].req = c.entry
        ELSE IF ~checkXSRF
        THEN /\ c.pc = "downstream"
             /\ c.installs = <<>>
             /\ c.req = c.parsed
             /\ c.calls = <<[to |-> "h", status |-> 0, err |-> "", req |-> c.parsed]>>
        ELSE IF c.local.err = ErrRandRead
        THEN /\ c.pc = "panic"
             /\ Len(cookie) # tokenLen
             /\ c.installs = <<>>
             /\ c.req = c.parsed
             /\ c.calls = <<>>
        ELSE /\ Len(token) = tokenLen
             /\ Len(cookie) = tokenLen => c.installs = <<>>
             /\ c.req.Responder =
                    IF Len(cookie) = tokenLen THEN c.entry.Responder
                    ELSE [kind |-> "filter", Responder |-> c.entry.Responder,
                          filter |-> CookieFilterOf(token)]
             /\ Get(c.req.Param, XSRFParamName) = token
             /\ Len(c.calls) = 1
             /\ c.calls[1].req = c.req
             /\ IF actual # token /\ c.parsed.Method \in Mutating
                THEN /\ c.pc = "error"
                     /\ c.calls[1].to = "error"
                     /\ c.calls[1].status = StatusNotFound
                     /\ c.calls[1].err = IF actual = "" THEN ErrMissingToken
                                         ELSE ErrBadToken
                ELSE /\ c.pc = "downstream"
                     /\ c.calls[1].to = "h"

\* C17: the handler keeps no state across requests: in every interleaving of
\* the calls serving NumRequests requests, the outcome of each call that has
\* returned or panicked (delegated or rejected, the error, the final "xsrf"
\* parameter, the filter installed) is the one its own cookie, parameter,
\* header, method and minted token determine.
C17_NoSharedState ==
    \A c \in {Ctx} \cup {others[i] : i \in 1..Len(others)} :
        c.pc \in {"downstream", "error", "panic"} => AloneOutcome(c)

C17_Witness ==
    /\ checkXSRF
    /\ pc = "error"
    /\ installs = <<CookieFilterOf("00000000")>>
    /\ calls[1].err = ErrBadToken
    /\ others[1].pc = "validate"
    /\ others[1].installs = <<CookieFilterOf("abcd1234")>>
    /\ others[1].parsed.Method = "GET"

----------------------------------------------------------------------------
(* Tokens, outcomes and filters *)

\* C18: with checkXSRF the expected token of the validation step is tokenLen
\* long, the cookie's value or the minted token, so never "": a POST, PUT or
\* DELETE request whose parameter and header are both empty is never
\* delegated, also when the cookie is absent or empty.
C18_ExpectedTokenNeverEmpty ==
    checkXSRF
    => /\ (pc = "validate" \/ Validated) =>
            /\ Len(local.expectedToken) = tokenLen
            /\ local.expectedToken \in {CookieOf(parsed)} \cup MintedTokens
       /\ (parsed.Method \in Mutating /\ Submitted(parsed) = "") =>
            /\ pc \notin {"delegate", "downstream"}
            /\ CallsTo("h") = {}

C18_Witness ==
    /\ checkXSRF
    /\ parsed.Method = "POST"
    /\ XSRFCookieName \notin DOMAIN parsed.Cookie
    /\ Submitted(parsed) = ""
    /\ local.expectedToken = "00000000"
    /\ pc = "error"
    /\ calls[1].err = ErrMissingToken

\* C19: every request passed to FormHandler ends in exactly one outcome: the
\* downstream handler invoked once, or req.Error called once, or the panic of
\* a failed random read; the handler never calls both and never calls one
\* twice, and it does end.
C19_AtMostOne ==
    /\ Len(calls) <= 1
    /\ pc \in {"form", "xsrf", "validate", "delegate", "panic"} => calls = <<>>
    /\ pc = "downstream" => (Len(calls) = 1 /\ calls[1].to = "h")
    /\ pc = "error" => (Len(calls) = 1 /\ calls[1].to = "error")
    /\ pc = "panic" => local.err = ErrRandRead

C19_ExactlyOneOutcome ==
    /\ []C19_AtMostOne
    /\ <>[](pc \in {"downstream", "error", "panic"})

C19_Witness ==
    /\ checkXSRF
    /\ pc = "downstream"
    /\ parsed.Method = "PUT"
    /\ Submitted(parsed) = "abcd1234"
    /\ Len(calls) = 1
    /\ calls[1].to = "h"

\* the filters the handler itself installed
HandlerFilters == {i \in 1..Len(installs) : installs[i] \notin CookieFilters}

\* the "xsrf" Set-Cookie values the original responder received
XSRFCookiesSent(i) ==
    LET header == sent[i].got.orig[1].header
    IN  IF HeaderSetCookie \notin DOMAIN header THEN {}
        ELSE {k \in 1..Len(header[HeaderSetCookie]) :
                header[HeaderSetCookie][k] \in
                    {"xsrf=" \o t : t \in MintedTokens \cup CookieValues}}

\* C20 as stated: one pass of the handler installs one filter exactly when
\* form parsing succeeded, checkXSRF is true and the cookie is not tokenLen
\* long, and none otherwise.
C20_Original ==
    Returned
    => Cardinality(HandlerFilters) =
            IF local.err \in {"", ErrRandRead} /\ checkXSRF
                /\ Len(CookieOf(parsed)) # tokenLen
            THEN 1 ELSE 0

\* C20 amended: one pass of the handler installs at most one filter, and
\* installs one exactly when form parsing succeeded, checkXSRF is true, the
\* cookie is not tokenLen long and the read of rand.Reader succeeded; a
\* Respond call on the request then adds that many "xsrf" Set-Cookie values,
\* at most one, and none when the cookie is tokenLen long.
C20_OneFilterWhenMinted ==
    /\ Cardinality(HandlerFilters) <= 1
    /\ pc \in {"form", "xsrf"} => HandlerFilters = {}
    /\ pc \notin {"form", "xsrf"} =>
        LET n == IF local.err = "" /\ checkXSRF
                    /\ Len(CookieOf(parsed)) # tokenLen
                 THEN 1 ELSE 0
        IN  /\ Cardinality(HandlerFilters) = n
            /\ \A i \in 1..Len(sent) : Cardinality(XSRFCookiesSent(i)) = n

C20_Witness ==
    /\ checkXSRF
    /\ CookieOf(parsed) = "abc"
    /\ pc = "downstream"
    /\ Len(installs) = 2
    /\ HandlerFilters = {1}
    /\ Len(sent) = 1
    /\ Cardinality(XSRFCookiesSent(1)) = 1

====
